---- MODULE Spec2Model ----
(***************************************************************************)
(* Grasp-and-shake benchmark harness (Motphys/phys-bench).                 *)
(*                                                                         *)
(* Six state machines share this module:                                   *)
(*   Spec      - the per-engine grasp controllers (mujoco, mujocowarp,     *)
(*               motrix, genesis): one action per loop iteration.          *)
(*   SpecPair  - two of the controllers ticking side by side.              *)
(*   SpecFile  - the file-name functions of test_output_utils.py.          *)
(*   SpecBatch - the batch runner run_all_grasp_tests.py.                  *)
(*   SpecReport - the report: load_test_results, generate_summary_stats    *)
(*               and the engine-by-configuration matrix.                   *)
(*   SpecBall  - the ball benchmark grasp-bench/test_motrixsim_ball.py.    *)
(*                                                                         *)
(* Time is counted in units of 1/Unit second, so that the timesteps used   *)
(* (0.002 s, 0.01 s, 0.02 s) and the 1/60 s render period are integers.    *)
(* Joint angles are counted in 1e-4 rad, heights in 1e-2 m. A control      *)
(* target is kept multiplied by Unit, so that lerp(a, b, t) is exact.      *)
(* Text is a sequence of one-character strings.                            *)
(***************************************************************************)
EXTENDS Integers, Sequences, FiniteSets, TLC

VARIABLES
    \* ---- controller (Spec) ----
    engine,         \* which controller script runs
    object,         \* --object
    shake,          \* --shake
    record,         \* --record
    mjx,            \* --mjx
    dt,             \* --dt, in time units
    pc,             \* "loop" inside the control loop, "done" after it
    step_cnt,       \* step_cnt
    inner,          \* motrix: index i of the inner for loop
    phase,          \* branch of the if/elif chain taken by the last tick
    status,         \* verdict: "none", "success", "failure"
    drop_time,      \* <<>> for None, <<t>> for a time
    obj_z,          \* height of the object in the simulation state
    seen_below,     \* the object was below the threshold at the last tick of
                    \* SHAKE_AND_VERIFY and at every tick since
    phys_steps,     \* number of physics steps performed
    arm,            \* arm target in effect (7 joints, times Unit)
    gripper,        \* gripper target in effect (times Unit)
    frames,         \* number of frames in the frame buffer
    capture_index,  \* motrix: capture_index
    capture_tasks,  \* motrix: the deque of capture tasks
    capture_mode,   \* motrix: how the renderer finishes captures, "sync" or "async"
    last_frame,     \* motrix: capture index of the last frame appended
    render_calls,   \* motrix: iterations of the while loop that reached its tail
    written,        \* artifacts written so far, in order
    exit_code,      \* <<>> while running or after a normal return, <<c>> after exit(c)
    \* ---- file names (SpecFile) ----
    f_in,           \* the inputs of generate_video_path
    f_path,         \* its result
    f_parsed,       \* the result of parse_result_filename on it
    f_pc,
    \* ---- batch runner (SpecBatch) ----
    b_args,         \* parsed command line
    b_pc,
    b_pos,          \* <<ei, oi, di>>: indices of the three nested loops
    b_completed,
    b_results,      \* the results dict, as a sequence of <<key, value>> in insertion order
    b_launched,     \* log of the child tests launched, in order
    b_printed,      \* status printed for each test, in order
    b_summary,      \* the counts print_summary printed, <<>> before it ran
    \* ---- two controllers side by side (SpecPair) ----
    p_engines,      \* <<e1, e2>>: the two controller scripts
    p_dt,           \* --dt of both
    p_cnt,          \* step_cnt of both, which tick together
    p_z,            \* height of the object, the same in both simulations
    p_pc,           \* <<pc1, pc2>>
    p_status,       \* <<status1, status2>>
    p_arm,          \* <<arm1, arm2>>: arm targets in effect
    p_gripper,      \* <<gripper1, gripper2>>: gripper targets in effect
    \* ---- report (SpecReport) ----
    r_dir,          \* the JSON files of output/, as a set of artifacts with distinct paths
    r_pc,           \* "writing" while tests still run, "reported" after the report
    r_results,      \* the list load_test_results returned
    r_stats,        \* <<>> before the report, <<stats>> after it
    r_matrix,       \* <<>> before the report or for an empty matrix, <<cells>> otherwise
    \* ---- ball benchmark (SpecBall) ----
    ball_v,         \* -v
    ball_r,         \* -r
    ball_pc,        \* "bench" during the benchmark, "done" after the non-visual loop
    step_counter,   \* step_counter[0], and the index i of the non-visual loop
    benchmark_complete,
    t_start,        \* <<>> for None, <<n>> when set during callback number n
    ball_calls,     \* number of times the render loop has invoked phys_step
    ball_reports,   \* number of FPS reports printed
    ball_log        \* control writes and physics steps of the benchmark, in order

ctl_vars == <<engine, object, shake, record, mjx, dt, pc, step_cnt, inner, phase,
              status, drop_time, obj_z, seen_below, phys_steps, arm, gripper, frames,
              capture_index, capture_tasks, capture_mode, last_frame, render_calls,
              written, exit_code>>
file_vars == <<f_in, f_path, f_parsed, f_pc>>
batch_vars == <<b_args, b_pc, b_pos, b_completed, b_results, b_launched, b_printed,
               b_summary>>
pair_vars == <<p_engines, p_dt, p_cnt, p_z, p_pc, p_status, p_arm, p_gripper>>
report_vars == <<r_dir, r_pc, r_results, r_stats, r_matrix>>
ball_vars == <<ball_v, ball_r, ball_pc, step_counter, benchmark_complete, t_start,
              ball_calls, ball_reports, ball_log>>
vars == <<ctl_vars, file_vars, batch_vars, pair_vars, report_vars, ball_vars>>

-----------------------------------------------------------------------------
(* Units and inputs *)

\* time units per second: the 60 Hz render period is 100 units
Unit == 60 * 100

\* timesteps tried: 0.002 s (the default), 0.01 s, 0.02 s
Dts == {12, 60, 120}

Engines == {"mujoco", "mujocowarp", "motrix", "genesis"}
Objects == {"cube", "ball", "bottle"}

\* heights the physics step may leave the object at, in 1e-2 m: below both
\* thresholds, between them, and at neither
Heights == {2, 3, 4}

None == <<>>
Some(x) == <<x>>

-----------------------------------------------------------------------------
(* Text *)

RECURSIVE Concat(_)
Concat(ss) == IF ss = <<>> THEN <<>> ELSE Head(ss) \o Concat(Tail(ss))

IsPrefix(p, s) == Len(p) <= Len(s) /\ SubSeq(s, 1, Len(p)) = p

\* str.replace(pat, rep), pat non-empty
RECURSIVE Replace(_, _, _)
Replace(s, pat, rep) ==
    IF s = <<>> THEN <<>>
    ELSE IF IsPrefix(pat, s)
         THEN rep \o Replace(SubSeq(s, Len(pat) + 1, Len(s)), pat, rep)
         ELSE <<Head(s)>> \o Replace(Tail(s), pat, rep)

\* str.split(sep) for a one-character sep: always at least one part
RECURSIVE SplitFrom(_, _, _)
SplitFrom(s, sep, cur) ==
    IF s = <<>> THEN <<cur>>
    ELSE IF Head(s) = sep
         THEN <<cur>> \o SplitFrom(Tail(s), sep, <<>>)
         ELSE SplitFrom(Tail(s), sep, Append(cur, Head(s)))

Split(s, sep) == SplitFrom(s, sep, <<>>)

\* x in s, for text
Contains(s, pat) == \E i \in 1..(Len(s) - Len(pat) + 1) : SubSeq(s, i, i + Len(pat) - 1) = pat

LastIndexOf(s, c) ==
    LET hits == {i \in 1..Len(s) : s[i] = c}
    IN  IF hits = {} THEN 0 ELSE CHOOSE i \in hits : \A j \in hits : j <= i

DigitChars == <<"0", "1", "2", "3", "4", "5", "6", "7", "8", "9">>
DigitChar(d) == DigitChars[d + 1]
IsDigit(c) == \E d \in 0..9 : DigitChars[d + 1] = c
DigitVal(c) == CHOOSE d \in 0..9 : DigitChars[d + 1] = c

RECURSIVE NatChars(_)
NatChars(n) == IF n < 10 THEN <<DigitChar(n)>> ELSE NatChars(n \div 10) \o <<DigitChar(n % 10)>>

RECURSIVE NatVal(_)
NatVal(s) == IF s = <<>> THEN 0 ELSE NatVal(SubSeq(s, 1, Len(s) - 1)) * 10 + DigitVal(s[Len(s)])

S_shake == <<"s", "h", "a", "k", "e">>
S_slip == <<"s", "l", "i", "p">>
S_grasp == <<"g", "r", "a", "s", "p">>
S_mjx == <<"m", "j", "x">>
S_dt == <<"d", "t">>
S_true == <<"t", "r", "u", "e">>
S_false == <<"f", "a", "l", "s", "e">>
S_mp4 == <<".", "m", "p", "4">>
S_json == <<".", "j", "s", "o", "n">>
S_output == <<"o", "u", "t", "p", "u", "t">>

NameChars(n) ==
    CASE n = "mujoco" -> <<"m", "u", "j", "o", "c", "o">>
      [] n = "mujocowarp" -> <<"m", "u", "j", "o", "c", "o", "w", "a", "r", "p">>
      [] n = "motrix" -> <<"m", "o", "t", "r", "i", "x">>
      [] n = "genesis" -> <<"g", "e", "n", "e", "s", "i", "s">>
      [] n = "cube" -> <<"c", "u", "b", "e">>
      [] n = "ball" -> <<"b", "a", "l", "l">>
      [] n = "bottle" -> <<"b", "o", "t", "t", "l", "e">>

\* str(b).lower()
BoolLower(b) == IF b THEN S_true ELSE S_false

\* f"{dt:.3f}": dt seconds rounded to thousandths (none of the timesteps used is a tie)
Fmt3f(d) ==
    LET th == (d * 1000 + Unit \div 2) \div Unit
        fr == th % 1000
    IN  NatChars(th \div 1000) \o <<".">>
        \o <<DigitChar(fr \div 100), DigitChar((fr \div 10) % 10), DigitChar(fr % 10)>>

-----------------------------------------------------------------------------
(* test_output_utils.py *)

\* the engine's threshold below which the object counts as dropped, in 1e-2 m
MotrixThreshold == 3
GenesisThreshold == 3
MujocoThreshold == 4
WarpThreshold == 4

\* str(output_dir / filename) with output_dir = Path("output")
OutputDirJoin(filename) == S_output \o <<"/">> \o filename

TaskName(sh) == IF sh THEN S_shake ELSE S_slip

generate_video_path(eng, object_name, sh, mj, d) ==
    LET task == TaskName(sh)
        mjx_str == S_mjx \o BoolLower(mj)
        dt_str == Replace(S_dt \o Fmt3f(d), <<".">>, <<"_">>)
        filename == Concat(<<NameChars(eng), <<"_">>, S_grasp, <<"_">>, task, <<"_">>,
                             NameChars(object_name), <<"_">>, mjx_str, <<"_">>, dt_str, S_mp4>>)
    IN  OutputDirJoin(filename)

\* Path(p).name
PathName(p) == SubSeq(p, LastIndexOf(p, "/") + 1, Len(p))

\* Path(p).stem: the name without its last suffix
PathStem(p) ==
    LET name == PathName(p)
        k == LastIndexOf(name, ".")
    IN  IF k > 1 THEN SubSeq(name, 1, k - 1) ELSE name

\* Path(p).with_suffix(suffix)
WithSuffix(p, suffix) ==
    LET k == LastIndexOf(PathName(p), ".")
        cut == Len(p) - Len(PathName(p)) + k
    IN  IF k > 1 THEN SubSeq(p, 1, cut - 1) \o suffix ELSE p \o suffix

\* float(s) succeeds on digits with at most one decimal point
IsFloatText(s) ==
    LET ps == Split(s, ".")
    IN  /\ Len(ps) <= 2
        /\ \A i \in 1..Len(ps) : \A j \in 1..Len(ps[i]) : IsDigit(ps[i][j])
        /\ \E i \in 1..Len(ps) : ps[i] # <<>>
        /\ Len(ps) = 2 => Len(ps[2]) <= 3

\* float(s), in time units
FloatVal(s) ==
    LET ps == Split(s, ".")
        fr == IF Len(ps) = 2 THEN ps[2] ELSE <<>>
        scale == CASE Len(fr) = 0 -> 1 [] Len(fr) = 1 -> 10 [] Len(fr) = 2 -> 100 [] OTHER -> 1000
    IN  NatVal(ps[1]) * Unit + (NatVal(fr) * Unit) \div scale

\* the dt the legacy pattern assumes: 0.002 s
LegacyDt == 12

parse_result_filename(filename) ==
    LET stem == PathStem(filename)
        parts == Split(stem, "_")
        dt_text == IF Len(parts) >= 7
                   THEN Replace(Replace(parts[7], S_dt, <<>>), <<"_">>, <<".">>)
                   ELSE <<>>
        legacy == IF Len(parts) >= 4 /\ parts[2] = S_grasp
                  THEN Some([engine |-> parts[1], task |-> parts[3], object |-> parts[4],
                             mjx |-> FALSE, dt |-> LegacyDt])
                  ELSE None
    IN  IF Len(parts) >= 8 /\ parts[2] = S_grasp /\ IsFloatText(dt_text)
        THEN Some([engine |-> parts[1], task |-> parts[3], object |-> parts[4],
                   mjx |-> (Replace(parts[6], S_mjx, <<>>) = S_true),
                   dt |-> FloatVal(dt_text)])
        ELSE legacy

\* save_video: one video artifact at video_path
save_video(n_frames, video_path) ==
    [kind |-> "video", path |-> video_path, frames |-> n_frames, result |-> None]

\* save_test_result: one JSON artifact beside the video
save_test_result(video_path, st, dtime, eng, object_name, sh, mj, d) ==
    [kind |-> "json", path |-> WithSuffix(video_path, S_json), frames |-> 0,
     result |-> Some([video_path |-> video_path, status |-> st, drop_time |-> dtime,
                      engine |-> eng, object |-> object_name, task |-> TaskName(sh),
                      mjx |-> mj, dt |-> d])]

-----------------------------------------------------------------------------
(* The grasp controllers: grasp_shaking_test_{mujoco,mujoco_warp,motrix,genesis}.py *)

\* arm joints of the three poses, in 1e-4 rad
init_arm == <<0, 0, 0, -15708, 0, 15708, -7853>>
grasp_arm == <<-10104, 15623, 13601, -16840, -15863, 17810, 14598>>
lift_arm == <<-10426, 14028, 15634, -17114, -14055, 16015, 14510>>
\* finger positions of the three poses, in 1e-4 m
GripperOpen == 400
GripperClosed == 0

\* a + t * (b - a) with t = tt / Unit; the result is times Unit
lerp(a, b, tt) == a * Unit + tt * (b - a)

LerpArm(a, b, tt) == [j \in 1..7 |-> lerp(a[j], b[j], tt)]

\* a pose written as it is
Exact(a) == [j \in 1..7 |-> a[j] * Unit]

\* samples of np.random.normal(0, 0.025, size=7), in 1e-4 rad
NoiseSamples == {<<250, -250, 0, 125, -125, 375, -375>>, <<-250, 250, 125, 0, -375, -125, 375>>}

AddNoise(a, n) == [j \in 1..7 |-> (a[j] + n[j]) * Unit]

\* the seconds that bound the phase windows
T1 == 1
T2 == 2
T3 == 3
T4 == 4
TDone == 20

\* the chain with the second window opened at its lower end (1 < t instead of 1 <= t)
PhaseOfGap(t) ==
    IF 0 <= t /\ t < T1 * Unit THEN "INIT_TO_LIFT"
    ELSE IF T1 * Unit < t /\ t < T2 * Unit THEN "LIFT_TO_GRASP"
    ELSE IF T2 * Unit <= t /\ t < T3 * Unit THEN "CLOSE_GRIPPER"
    ELSE IF T3 * Unit <= t /\ t < T4 * Unit THEN "LIFT_OBJECT"
    ELSE IF T4 * Unit <= t /\ t < TDone * Unit THEN "SHAKE_AND_VERIFY"
    ELSE IF t >= TDone * Unit THEN "DONE"
    ELSE "NONE"

\* the if/elif chain over elapsed_time
PhaseOf(t) ==
    IF 0 <= t /\ t < T1 * Unit THEN "INIT_TO_LIFT"
    ELSE IF T1 * Unit <= t /\ t < T2 * Unit THEN "LIFT_TO_GRASP"
    ELSE IF T2 * Unit <= t /\ t < T3 * Unit THEN "CLOSE_GRIPPER"
    ELSE IF T3 * Unit <= t /\ t < T4 * Unit THEN "LIFT_OBJECT"
    ELSE IF T4 * Unit <= t /\ t < TDone * Unit THEN "SHAKE_AND_VERIFY"
    ELSE IF t >= TDone * Unit THEN "DONE"
    ELSE "NONE"

\* the counter advanced twice in one iteration
NextStepCntTwice(c) == c + 2

\* step_cnt += 1
NextStepCnt(c) == c + 1

\* the elapsed time taken before the counter is advanced
ElapsedBeforeStep(c, d) == (c - 1) * d

\* elapsed_time = step_cnt * sim_dt
Elapsed(c, d) == c * d

Threshold(e) ==
    CASE e = "motrix" -> MotrixThreshold
      [] e = "genesis" -> GenesisThreshold
      [] e = "mujoco" -> MujocoThreshold
      [] e = "mujocowarp" -> WarpThreshold

\* the comparison made non-strict
DroppedOrAt(e, z) == z <= Threshold(e)

\* obj_pos[2] < threshold
Dropped(e, z) == z < Threshold(e)

\* the tick of SHAKE_AND_VERIFY looks at the object: mujoco-warp every 100th step
WarpCheckEvery == 100
Checks(e, c) == e # "mujocowarp" \/ c % WarpCheckEvery = 0

\* the frame rate of the recordings
Fps == 30

S_noslip == <<"n", "o", "s", "l", "i", "p", "_", "i", "t", "e", "r", "a", "t", "i", "o", "n", "s", "=", "1">>

\* the video name the mujoco controller builds itself
MujocoVideoName(sh, object_name) ==
    Concat(<<NameChars("mujoco"), <<"_">>, S_grasp, <<"_">>, TaskName(sh), <<"_">>,
             NameChars(object_name), <<"_">>, S_noslip, S_mp4>>)

\* the video name the genesis controller builds itself
GenesisVideoName(sh, object_name) ==
    Concat(<<NameChars("genesis"), <<"_">>, S_grasp, <<"_">>, TaskName(sh), <<"_">>,
             NameChars(object_name), S_mp4>>)

\* the elapsed time itself passed to lerp in every branch
FracOfRun(ph, t) == t

\* the third argument of lerp in the branch of phase ph: elapsed_time less the start
\* of the window
Frac(ph, t) ==
    CASE ph = "INIT_TO_LIFT" -> t
      [] ph = "LIFT_TO_GRASP" -> t - T1 * Unit
      [] ph = "CLOSE_GRIPPER" -> t - T2 * Unit
      [] ph = "LIFT_OBJECT" -> t - T3 * Unit

\* the arm written with noise on every tick of the last window
ArmAfterEveryTick(e, ph, t, c, sh, n, old) ==
    CASE ph = "INIT_TO_LIFT" -> LerpArm(init_arm, lift_arm, Frac(ph, t))
      [] ph = "LIFT_TO_GRASP" -> LerpArm(lift_arm, grasp_arm, Frac(ph, t))
      [] ph = "CLOSE_GRIPPER" -> IF e \in {"mujocowarp", "genesis"} THEN Exact(grasp_arm) ELSE old
      [] ph = "LIFT_OBJECT" -> LerpArm(grasp_arm, lift_arm, Frac(ph, t))
      [] ph = "SHAKE_AND_VERIFY" -> IF sh THEN AddNoise(lift_arm, n) ELSE old
      [] OTHER -> old

\* the arm target a tick leaves in effect
ArmAfter(e, ph, t, c, sh, n, old) ==
    CASE ph = "INIT_TO_LIFT" -> LerpArm(init_arm, lift_arm, Frac(ph, t))
      [] ph = "LIFT_TO_GRASP" -> LerpArm(lift_arm, grasp_arm, Frac(ph, t))
      [] ph = "CLOSE_GRIPPER" -> IF e \in {"mujocowarp", "genesis"} THEN Exact(grasp_arm) ELSE old
      [] ph = "LIFT_OBJECT" -> LerpArm(grasp_arm, lift_arm, Frac(ph, t))
      [] ph = "SHAKE_AND_VERIFY" -> IF sh /\ c % 2 = 0 THEN AddNoise(lift_arm, n) ELSE old
      [] OTHER -> old

\* the gripper target a tick leaves in effect
GripperAfter(e, ph, t, c, sh, old) ==
    CASE ph = "CLOSE_GRIPPER" -> lerp(GripperOpen, GripperClosed, Frac(ph, t))
      [] ph = "INIT_TO_LIFT" -> IF e = "genesis" THEN GripperOpen * Unit ELSE old
      [] ph = "LIFT_TO_GRASP" -> IF e = "genesis" THEN GripperOpen * Unit ELSE old
      [] ph = "LIFT_OBJECT" -> IF e = "genesis" THEN GripperClosed * Unit ELSE old
      [] ph = "SHAKE_AND_VERIFY" ->
            IF e = "genesis" /\ sh /\ c % 2 = 0 THEN GripperClosed * Unit ELSE old
      [] OTHER -> old

\* the object is under the threshold at a tick of SHAKE_AND_VERIFY, or was at the
\* last one and still is at the tick with t >= 20
StaysBelow(e, ph, z, before) ==
    CASE ph = "SHAKE_AND_VERIFY" -> z < Threshold(e)
      [] ph = "DONE" -> before /\ z < Threshold(e)
      [] OTHER -> FALSE

\* the tick ends the run: a drop seen in SHAKE_AND_VERIFY, or DONE
Terminal(e, ph, c, z) ==
    \/ ph = "SHAKE_AND_VERIFY" /\ Checks(e, c) /\ Dropped(e, z)
    \/ ph = "DONE"

Verdict(ph) == IF ph = "DONE" THEN "success" ELSE "failure"

\* only the motrix and mujoco-warp controllers keep a drop time
KeepsDropTime(e) == e \in {"motrix", "mujocowarp"}

DropTimeAt(e, ph, t) == IF KeepsDropTime(e) /\ ph # "DONE" THEN Some(t) ELSE None

\* the video written and the result record left out
SavedVideoOnly(e, object_name, sh, mj, d, st, dtime, n_frames) ==
    <<save_video(n_frames, generate_video_path(e, object_name, sh, mj, d))>>

\* what the controller writes once the loop is left, with recording enabled
Saved(e, object_name, sh, mj, d, st, dtime, n_frames) ==
    CASE e \in {"motrix", "mujocowarp"} ->
            LET video_path == generate_video_path(e, object_name, sh, mj, d)
            IN  <<save_video(n_frames, video_path),
                  save_test_result(video_path, st, dtime, e, object_name, sh, mj, d)>>
      [] e = "mujoco" -> <<save_video(n_frames, MujocoVideoName(sh, object_name))>>
      [] e = "genesis" ->
            IF n_frames > 0 THEN <<save_video(n_frames, GenesisVideoName(sh, object_name))>>
            ELSE <<>>

\* a frame is recorded after the physics step
RecordsFrame(e, n_frames, t, steps, d) ==
    CASE e = "mujoco" -> n_frames * Unit < steps * d * Fps
      [] e = "mujocowarp" -> n_frames < (t * Fps) \div Unit
      [] e = "genesis" -> n_frames < (steps * d * Fps) \div Unit
      [] OTHER -> FALSE

\* render period of the motrix controller: 1/60 s
RenderDt == Unit \div 60

\* phys_steps_per_render = int(render_dt / sim_dt)
StepsPerRender(d) == RenderDt \div d

\* one iteration of the control loop of controller e
Tick(e) ==
    /\ engine = e
    /\ pc = "loop"
    /\ e = "motrix" => inner < StepsPerRender(dt)
    /\ LET c == NextStepCnt(step_cnt)
           t == Elapsed(c, dt)
           ph == PhaseOf(t)
           noisy == ph = "SHAKE_AND_VERIFY" /\ shake /\ c % 2 = 0
       IN  /\ step_cnt' = c
           /\ phase' = ph
           /\ \E n \in (IF noisy THEN NoiseSamples ELSE {init_arm}) :
                 arm' = ArmAfter(e, ph, t, c, shake, n, arm)
           /\ gripper' = GripperAfter(e, ph, t, c, shake, gripper)
           /\ seen_below' = StaysBelow(e, ph, obj_z, seen_below)
           /\ IF Terminal(e, ph, c, obj_z)
              THEN /\ pc' = "done"
                   /\ status' = Verdict(ph)
                   /\ drop_time' = DropTimeAt(e, ph, t)
                   /\ written' = IF record
                                 THEN written \o Saved(e, object, shake, mjx, dt, Verdict(ph),
                                                       DropTimeAt(e, ph, t), frames)
                                 ELSE written
                   /\ exit_code' = IF e = "motrix" THEN Some(0) ELSE None
                   /\ UNCHANGED <<obj_z, phys_steps, frames, inner>>
              ELSE /\ \E z \in Heights : obj_z' = z
                   /\ phys_steps' = phys_steps + 1
                   /\ frames' = IF record /\ RecordsFrame(e, frames, t, phys_steps + 1, dt)
                                THEN frames + 1 ELSE frames
                   /\ inner' = IF e = "motrix" THEN inner + 1 ELSE inner
                   /\ UNCHANGED <<pc, status, drop_time, written, exit_code>>
    /\ UNCHANGED <<engine, object, shake, record, mjx, dt, capture_index, capture_tasks,
                   capture_mode, last_frame, render_calls>>
    /\ UNCHANGED <<file_vars, batch_vars, pair_vars, report_vars, ball_vars>>

MujocoTick == Tick("mujoco")
WarpTick == Tick("mujocowarp")
MotrixTick == Tick("motrix")
GenesisTick == Tick("genesis")

\* the mujoco viewer is closed: viewer.is_running() turns false and the loop is left
ViewerClose ==
    /\ engine = "mujoco"
    /\ pc = "loop"
    /\ pc' = "done"
    /\ written' = IF record
                  THEN written \o Saved("mujoco", object, shake, mjx, dt, status, None, frames)
                  ELSE written
    /\ UNCHANGED <<engine, object, shake, record, mjx, dt, step_cnt, inner, phase, status,
                   drop_time, obj_z, seen_below, phys_steps, arm, gripper, frames, capture_index,
                   capture_tasks, capture_mode, last_frame, render_calls, exit_code>>
    /\ UNCHANGED <<file_vars, batch_vars, pair_vars, report_vars, ball_vars>>

\* captures in flight the renderer leaves unfinished at one time
MaxInFlight == 2
\* captures that come back without a usable image
MaxBlank == 1

\* the capture tasks after renderer.sync: a pending one may have become ready. A
\* "sync" renderer finishes every capture, with an image, in the sync that follows it;
\* an "async" one finishes them at any later sync, in any order
Completions(q, mode) ==
    {q2 \in [1..Len(q) -> {[idx |-> q[i].idx, state |-> s] : i \in 1..Len(q), s \in {"pending", "ready"}}] :
        \A i \in 1..Len(q) : /\ q2[i].idx = q[i].idx
                             /\ q[i].state = "ready" => q2[i].state = "ready"
                             /\ mode = "sync" => q2[i].state = "ready"}

\* the popped tasks whose image is None or all black
Blanks(k, mode) == IF mode = "sync" THEN {{}} ELSE SUBSET (1..k)

\* every finished task counted, wherever it stands in the queue
ReadyCount(q) == Cardinality({i \in 1..Len(q) : q[i].state # "pending"})

\* number of tasks the drain loop pops: those before the first pending one
ReadyPrefix(q) ==
    LET pend == {i \in 1..Len(q) : q[i].state = "pending"}
    IN  IF pend = {} THEN Len(q) ELSE (CHOOSE i \in pend : \A j \in pend : i <= j) - 1

\* iterations of the while loop followed beyond the step counter
MaxSpin == 3

\* the tail of one iteration of the motrix while loop: capture, sync, drain
MotrixRender ==
    /\ engine = "motrix"
    /\ pc = "loop"
    /\ inner >= StepsPerRender(dt)
    /\ render_calls < step_cnt + MaxSpin
    /\ inner' = 0
    /\ render_calls' = render_calls + 1
    /\ IF record
       THEN LET capt == capture_index * Unit < step_cnt * dt * Fps
                q1 == IF capt
                      THEN Append(capture_tasks, [idx |-> capture_index, state |-> "pending"])
                      ELSE capture_tasks
            IN  /\ capture_index' = IF capt THEN capture_index + 1 ELSE capture_index
                /\ \E q2 \in Completions(q1, capture_mode) :
                      LET k == ReadyPrefix(q2)
                      IN  /\ Len(q2) - k <= MaxInFlight
                          /\ capture_tasks' = SubSeq(q2, k + 1, Len(q2))
                          /\ \E blank \in Blanks(k, capture_mode) :
                                LET good == (1..k) \ blank
                                IN  /\ frames' = frames + Cardinality(good)
                                    /\ capture_index' - Len(capture_tasks') - frames' <= MaxBlank
                                    /\ last_frame' =
                                          IF good = {} THEN last_frame
                                          ELSE q2[CHOOSE i \in good : \A j \in good : j <= i].idx
       ELSE UNCHANGED <<capture_index, capture_tasks, frames, last_frame>>
    /\ UNCHANGED <<engine, object, shake, record, mjx, dt, pc, step_cnt, phase, status,
                   drop_time, obj_z, seen_below, phys_steps, arm, gripper, capture_mode, written,
                   exit_code>>
    /\ UNCHANGED <<file_vars, batch_vars, pair_vars, report_vars, ball_vars>>

\* the state of the file-name and batch machines while they are not running
FileIdle ==
    /\ f_in = None
    /\ f_path = None
    /\ f_parsed = None
    /\ f_pc = "idle"

BatchIdle ==
    /\ b_args = None
    /\ b_pc = "idle"
    /\ b_pos = <<0, 0, 0>>
    /\ b_completed = 0
    /\ b_results = <<>>
    /\ b_launched = <<>>
    /\ b_printed = <<>>
    /\ b_summary = None

PairIdle ==
    /\ p_engines = <<>>
    /\ p_dt = 0
    /\ p_cnt = 0
    /\ p_z = 0
    /\ p_pc = <<>>
    /\ p_status = <<>>
    /\ p_arm = <<>>
    /\ p_gripper = <<>>

ReportIdle ==
    /\ r_dir = {}
    /\ r_pc = "idle"
    /\ r_results = <<>>
    /\ r_stats = None
    /\ r_matrix = None

BallIdle ==
    /\ ball_v = FALSE
    /\ ball_r = FALSE
    /\ ball_pc = "idle"
    /\ step_counter = 0
    /\ benchmark_complete = FALSE
    /\ t_start = None
    /\ ball_calls = 0
    /\ ball_reports = 0
    /\ ball_log = <<>>

CtlIdle ==
    /\ engine = "none"
    /\ object = "none"
    /\ shake = FALSE
    /\ record = FALSE
    /\ mjx = FALSE
    /\ dt = 0
    /\ pc = "idle"
    /\ step_cnt = 0
    /\ inner = 0
    /\ phase = "START"
    /\ status = "none"
    /\ drop_time = None
    /\ obj_z = 0
    /\ seen_below = FALSE
    /\ phys_steps = 0
    /\ arm = <<>>
    /\ gripper = 0
    /\ frames = 0
    /\ capture_index = 0
    /\ capture_tasks = <<>>
    /\ capture_mode = "sync"
    /\ last_frame = -1
    /\ render_calls = 0
    /\ written = <<>>
    /\ exit_code = None

\* the runs explored: every engine, shake and record setting with the 0.01 s and
\* 0.02 s timesteps; every object and model variant for the recorded slip test at
\* 0.01 s; the 0.002 s default for the two controllers whose loop depends on it; an
\* asynchronous renderer for the recorded motrix slip test of the cube at 0.01 s
Explored(e, o, sh, rec, mj, d, mode) ==
    /\ \/ d \in {60, 120} /\ o = "cube" /\ ~mj
       \/ d = 60 /\ ~sh /\ rec
       \/ d = 12 /\ o = "cube" /\ ~mj /\ e \in {"mujocowarp", "motrix"} /\ (~sh \/ ~rec)
    /\ mode = "async" => e = "motrix" /\ rec /\ ~sh /\ d = 60 /\ o = "cube" /\ ~mj

Init ==
    /\ engine \in Engines
    /\ object \in Objects
    /\ shake \in BOOLEAN
    /\ record \in BOOLEAN
    /\ mjx \in BOOLEAN
    /\ dt \in Dts
    /\ capture_mode \in {"sync", "async"}
    /\ Explored(engine, object, shake, record, mjx, dt, capture_mode)
    /\ pc = "loop"
    /\ step_cnt = 0
    /\ inner = 0
    /\ phase = "START"
    /\ status = "none"
    /\ drop_time = None
    /\ obj_z \in Heights
    /\ seen_below = FALSE
    /\ phys_steps = 0
    /\ arm = Exact(init_arm)
    /\ gripper = GripperOpen * Unit
    /\ frames = 0
    /\ capture_index = 0
    /\ capture_tasks = <<>>
    /\ last_frame = -1
    /\ render_calls = 0
    /\ written = <<>>
    /\ exit_code = None
    /\ FileIdle
    /\ BatchIdle
    /\ PairIdle
    /\ ReportIdle
    /\ BallIdle

Next ==
    \/ MujocoTick
    \/ WarpTick
    \/ MotrixTick
    \/ GenesisTick
    \/ MotrixRender
    \/ ViewerClose

Spec == Init /\ [][Next]_vars

-----------------------------------------------------------------------------
(* Properties of the controllers *)

\* the windows of the phase table, in seconds: [lo, hi), hi = 0 for no upper end
Windows ==
    <<[lo |-> 0, hi |-> 1, name |-> "INIT_TO_LIFT"],
      [lo |-> 1, hi |-> 2, name |-> "LIFT_TO_GRASP"],
      [lo |-> 2, hi |-> 3, name |-> "CLOSE_GRIPPER"],
      [lo |-> 3, hi |-> 4, name |-> "LIFT_OBJECT"],
      [lo |-> 4, hi |-> 20, name |-> "SHAKE_AND_VERIFY"],
      [lo |-> 20, hi |-> 0, name |-> "DONE"]>>

InWindow(i, t) ==
    /\ Windows[i].lo * Unit <= t
    /\ Windows[i].hi # 0 => t < Windows[i].hi * Unit

PhaseRank(ph) ==
    CASE ph = "START" -> 0
      [] ph = "INIT_TO_LIFT" -> 1
      [] ph = "LIFT_TO_GRASP" -> 2
      [] ph = "CLOSE_GRIPPER" -> 3
      [] ph = "LIFT_OBJECT" -> 4
      [] ph = "SHAKE_AND_VERIFY" -> 5
      [] ph = "DONE" -> 6
      [] OTHER -> -1

\* C1: a tick of SHAKE_AND_VERIFY that looks at the object and finds it strictly below
\* the engine's threshold ends the run at that tick with status failure and, in the
\* controllers that keep one, drop_time = step_cnt * dt; a tick with t >= 20 ends it
\* with status success and drop_time None; every other tick leaves the run going with
\* no verdict. So drop_time is set exactly when the status is failure.
C1_DropDetection ==
    /\ [](KeepsDropTime(engine) => (drop_time # None <=> status = "failure"))
    /\ [][step_cnt' = step_cnt + 1 =>
            LET t == step_cnt' * dt
            IN  IF /\ T4 * Unit <= t
                   /\ t < TDone * Unit
                   /\ Checks(engine, step_cnt')
                   /\ obj_z < Threshold(engine)
                THEN /\ pc' = "done"
                     /\ status' = "failure"
                     /\ KeepsDropTime(engine) => drop_time' = Some(t)
                ELSE IF t >= TDone * Unit
                THEN /\ pc' = "done"
                     /\ status' = "success"
                     /\ drop_time' = None
                     /\ step_cnt * dt < TDone * Unit
                ELSE /\ pc' = "loop"
                     /\ status' = "none"
                     /\ drop_time' = None]_vars

\* a drop was detected by a controller that keeps the drop time
C1_Witness ==
    /\ pc = "done"
    /\ engine = "mujocowarp"
    /\ status = "failure"
    /\ drop_time = Some(step_cnt * dt)
    /\ obj_z = 3

\* C2 (as claimed): every iteration of the control loop advances the step counter, so
\* the loop reaches its terminal tick for every dt > 0
C2_EveryIterationTicks == pc = "loop" => render_calls <= step_cnt

\* C3: at every tick the elapsed time step_cnt * dt lies in exactly one of the six
\* windows, and the branch taken is the phase of that window
C3_OnePhase ==
    step_cnt >= 1 =>
        LET t == step_cnt * dt
            hits == {i \in 1..6 : InWindow(i, t)}
        IN  /\ Cardinality(hits) = 1
            /\ \A i \in hits : phase = Windows[i].name

\* a tick on the boundary of two windows
C3_Witness == step_cnt >= 1 /\ step_cnt * dt = 4 * Unit /\ phase = "SHAKE_AND_VERIFY"

\* C4: a step of the controller leaves the step counter alone or adds exactly 1, adds 1
\* whenever it steps the physics or takes a branch, never moves to an earlier phase,
\* and nothing happens once the run is over
C4_Monotone ==
    [][/\ pc = "loop"
       /\ step_cnt' = step_cnt \/ step_cnt' = step_cnt + 1
       /\ (phys_steps' # phys_steps \/ phase' # phase \/ status' # status)
             => step_cnt' = step_cnt + 1
       /\ step_cnt' * dt' = step_cnt * dt \/ step_cnt' * dt' = step_cnt * dt + dt
       /\ PhaseRank(phase') >= PhaseRank(phase)
       /\ PhaseRank(phase') >= 0]_vars

\* a run that went through all six phases
C4_Witness == pc = "done" /\ phase = "DONE" /\ step_cnt * dt = TDone * Unit /\ phys_steps = step_cnt - 1

\* C6 (as claimed): a recorded run that ends with a verdict has written its video and
\* then one result record, at the video's path with the .json suffix
C6_SidecarWritten ==
    (pc = "done" /\ record /\ status # "none") =>
        /\ Len(written) = 2
        /\ written[1].kind = "video"
        /\ written[2].kind = "json"
        /\ written[2].path = WithSuffix(written[1].path, S_json)
        /\ written[2].result # None
        /\ LET r == written[2].result[1]
           IN  /\ r.status = status
               /\ r.drop_time = drop_time
               /\ r.engine = engine
               /\ r.object = object
               /\ r.task = TaskName(shake)
               /\ r.mjx = mjx
               /\ r.dt = dt

\* C12 (as claimed): every video written by a recording run is named
\* {engine}_grasp_{task}_{object}_mjx{true|false}_dt{value}.mp4 for the run's own
\* engine, object, shake, mjx and dt, value being dt with three decimals and an
\* underscore for the decimal point
C12_VideoName ==
    \A i \in 1..Len(written) :
       written[i].kind = "video" =>
           PathName(written[i].path) =
               Concat(<<NameChars(engine), <<"_">>, S_grasp, <<"_">>,
                        IF shake THEN S_shake ELSE S_slip, <<"_">>, NameChars(object),
                        <<"_">>, S_mjx, IF mjx THEN S_true ELSE S_false, <<"_">>, S_dt,
                        Replace(Fmt3f(dt), <<".">>, <<"_">>), S_mp4>>)

\* C14: the motrix controller leaves its loop only by exit(0), on the drop path and
\* on the t >= 20 path; nothing is written while the loop runs; at the exit a
\* recording run has written its video and then its result record, and a run without
\* recording has written nothing
C14_MotrixExit ==
    engine = "motrix" =>
        /\ exit_code # None <=> pc = "done"
        /\ pc = "loop" => written = <<>>
        /\ pc = "done" =>
              /\ exit_code = Some(0)
              /\ status \in {"success", "failure"}
              /\ status = "success" <=> step_cnt * dt >= TDone * Unit
              /\ ~record => written = <<>>
              /\ record =>
                    /\ Len(written) = 2
                    /\ written[1].kind = "video"
                    /\ written[1].frames = frames
                    /\ written[2].kind = "json"
                    /\ written[2].path = WithSuffix(written[1].path, S_json)
                    /\ written[2].result # None
                    /\ written[2].result[1].status = status
                    /\ written[2].result[1].drop_time = drop_time

\* a recording motrix run that ended on the drop path
C14_Witness ==
    /\ engine = "motrix"
    /\ record
    /\ pc = "done"
    /\ status = "failure"
    /\ exit_code = Some(0)
    /\ Len(written) = 2

\* C15 (as claimed): with shake disabled, the arm target in effect at every tick with
\* 4 <= t < 20 is the lift pose exactly
C15_HoldsLiftPose ==
    (~shake /\ step_cnt >= 1 /\ T4 * Unit <= step_cnt * dt /\ step_cnt * dt < TDone * Unit)
        => arm = Exact(lift_arm)

\* C17 (as claimed): at every tick with 2 <= t < 3 the arm target in effect is the grasp
\* pose exactly and the gripper target is lerp(0.04, 0.0, t - 2)
C17_CloseGripper ==
    (step_cnt >= 1 /\ T2 * Unit <= step_cnt * dt /\ step_cnt * dt < T3 * Unit) =>
        /\ arm = Exact(grasp_arm)
        /\ gripper = lerp(GripperOpen, GripperClosed, step_cnt * dt - T2 * Unit)

\* C18 (as claimed): at every tick with 3 <= t < 4 the arm target is
\* lerp(grasp, lift, t - 3) and the gripper target in effect is the closed value 0.0
C18_LiftObject ==
    (step_cnt >= 1 /\ T3 * Unit <= step_cnt * dt /\ step_cnt * dt < T4 * Unit) =>
        /\ arm = LerpArm(grasp_arm, lift_arm, step_cnt * dt - T3 * Unit)
        /\ gripper = GripperClosed * Unit

\* C16: with shake enabled, a tick of SHAKE_AND_VERIFY whose step counter is even
\* writes the arm target lift pose plus noise, a tick whose step counter is odd leaves
\* the arm target as it was, and neither changes the gripper target
C16_NoiseOnEvenTicks ==
    [][(/\ shake
        /\ step_cnt' = step_cnt + 1
        /\ T4 * Unit <= step_cnt' * dt
        /\ step_cnt' * dt < TDone * Unit) =>
           /\ step_cnt' % 2 = 0 => \E n \in NoiseSamples : arm' = AddNoise(lift_arm, n)
           /\ step_cnt' % 2 = 1 => arm' = arm
           /\ gripper' = gripper]_vars

\* an odd tick of the shake window, the noisy pose of the tick before still in effect
C16_Witness ==
    /\ shake
    /\ pc = "loop"
    /\ phase = "SHAKE_AND_VERIFY"
    /\ step_cnt % 2 = 1
    /\ step_cnt * dt > T4 * Unit + dt
    /\ \E n \in NoiseSamples : arm = AddNoise(lift_arm, n)

Indices(q) == [i \in 1..Len(q) |-> q[i].idx]

C21_RenderSlower ==
    (engine = "motrix" /\ dt \in {12, 60} /\ render_calls >= 1) =>
        /\ StepsPerRender(dt) >= 2
        /\ render_calls < step_cnt

\* C22 (as claimed): a recording run at dt = 0.01 s with shake disabled that ends in
\* success does so at tick 2000 with drop_time None, and the video it writes holds 600
\* frames to within one
C22_SuccessRun ==
    (pc = "done" /\ record /\ ~shake /\ dt = 60 /\ status = "success") =>
        /\ step_cnt = 2000
        /\ step_cnt * dt = TDone * Unit
        /\ drop_time = None
        /\ Len(written) >= 1
        /\ written[1].kind = "video"
        /\ written[1].frames >= TDone * Fps - 1
        /\ written[1].frames <= TDone * Fps + 1

\* C23: a tick that does not end the run sets that tick's targets and steps the
\* physics exactly once, the tick that ends the run steps nothing, and nothing else
\* steps the physics; so a run that ends in success has made ceil(20 / dt) - 1 steps
C23_OneStepPerTick ==
    /\ [](status = "success" =>
            /\ step_cnt = (TDone * Unit + dt - 1) \div dt
            /\ phys_steps = (TDone * Unit + dt - 1) \div dt - 1)
    /\ [](phys_steps = IF status = "none" THEN step_cnt ELSE step_cnt - 1)
    /\ [][/\ phys_steps' \in {phys_steps, phys_steps + 1}
          /\ phys_steps' # phys_steps => step_cnt' = step_cnt + 1
          /\ step_cnt' = step_cnt + 1 =>
                /\ phase' = PhaseOf(step_cnt' * dt)
                /\ phys_steps' = IF pc' = "loop" THEN phys_steps + 1 ELSE phys_steps
                /\ (phase' \in {"INIT_TO_LIFT", "LIFT_TO_GRASP", "LIFT_OBJECT"}) =>
                      arm' = ArmAfter(engine, phase', step_cnt' * dt, step_cnt', shake,
                                      init_arm, arm)
                /\ gripper' = GripperAfter(engine, phase', step_cnt' * dt, step_cnt', shake,
                                           gripper)]_vars

\* a genesis run at dt = 0.02 s that ended in success after 999 physics steps
C23_Witness ==
    /\ engine = "genesis"
    /\ dt = 120
    /\ pc = "done"
    /\ status = "success"
    /\ step_cnt = 1000
    /\ phys_steps = 999

\* C24 (as claimed): when the mujoco-warp controller looks at the object on a tick of
\* SHAKE_AND_VERIFY, the next tick on which it looks is the one 0.2 s later
C24_CheckPeriod ==
    (engine = "mujocowarp" /\ phase = "SHAKE_AND_VERIFY" /\ Checks(engine, step_cnt)) =>
        LET k == (Unit \div 5) \div dt
        IN  /\ k * dt = Unit \div 5
            /\ Checks(engine, step_cnt + k)
            /\ \A j \in 1..(k - 1) : ~Checks(engine, step_cnt + j)

\* C25 (as claimed): no run ends in success with the object below the threshold at
\* its last tick of SHAKE_AND_VERIFY and still below it at the tick that ends the run
C25_NoSuccessBelow == status = "success" => ~seen_below

-----------------------------------------------------------------------------
(* SpecPair: two controllers given the same --dt, shake disabled, and simulations *)
(* that leave the object at the same height after every step                      *)

EngineOrder == <<"mujoco", "mujocowarp", "motrix", "genesis">>

\* the timesteps at which every controller ticks: the motrix loop needs
\* phys_steps_per_render >= 1
PairDts == {d \in Dts : StepsPerRender(d) > 0}

\* the heights on which the comparisons obj_pos[2] < 0.03 and obj_pos[2] < 0.04 agree
PairHeights == {z \in Heights : \A e1, e2 \in Engines : Dropped(e1, z) = Dropped(e2, z)}

PairInit ==
    /\ p_engines \in {<<EngineOrder[ij[1]], EngineOrder[ij[2]]>> :
                         ij \in {x \in (1..4) \X (1..4) : x[1] < x[2]}}
    /\ p_dt \in PairDts
    /\ p_cnt = 0
    /\ p_z \in PairHeights
    /\ p_pc = <<"loop", "loop">>
    /\ p_status = <<"none", "none">>
    /\ p_arm = <<Exact(init_arm), Exact(init_arm)>>
    /\ p_gripper = <<GripperOpen * Unit, GripperOpen * Unit>>
    /\ CtlIdle
    /\ FileIdle
    /\ BatchIdle
    /\ ReportIdle
    /\ BallIdle

\* one iteration of the control loop in each controller that is still running
PairTick ==
    /\ \E i \in 1..2 : p_pc[i] = "loop"
    /\ LET c == NextStepCnt(p_cnt)
           t == Elapsed(c, p_dt)
           ph == PhaseOf(t)
           ends == [i \in 1..2 |-> p_pc[i] = "loop" /\ Terminal(p_engines[i], ph, c, p_z)]
       IN  /\ p_cnt' = c
           /\ p_arm' = [i \in 1..2 |->
                          IF p_pc[i] = "loop"
                          THEN ArmAfter(p_engines[i], ph, t, c, FALSE, init_arm, p_arm[i])
                          ELSE p_arm[i]]
           /\ p_gripper' = [i \in 1..2 |->
                              IF p_pc[i] = "loop"
                              THEN GripperAfter(p_engines[i], ph, t, c, FALSE, p_gripper[i])
                              ELSE p_gripper[i]]
           /\ p_pc' = [i \in 1..2 |-> IF ends[i] THEN "done" ELSE p_pc[i]]
           /\ p_status' = [i \in 1..2 |-> IF ends[i] THEN Verdict(ph) ELSE p_status[i]]
           /\ IF \E i \in 1..2 : p_pc[i] = "loop" /\ ~ends[i]
              THEN \E z \in PairHeights : p_z' = z
              ELSE UNCHANGED p_z
    /\ UNCHANGED <<p_engines, p_dt>>
    /\ UNCHANGED <<ctl_vars, file_vars, batch_vars, report_vars, ball_vars>>

PairNext == PairTick

SpecPair == PairInit /\ [][PairNext]_vars

\* C11 (as claimed): with shake disabled, the same dt and the same heights, two
\* controllers have the same arm and gripper targets in effect after every tick, and
\* end on the same tick with the same verdict
C11_SameTargets ==
    p_cnt >= 1 =>
        /\ p_arm[1] = p_arm[2]
        /\ p_gripper[1] = p_gripper[2]
        /\ p_pc[1] = p_pc[2]
        /\ p_status[1] = p_status[2]

-----------------------------------------------------------------------------
(* SpecFile: generate_video_path and parse_result_filename applied to inputs *)

\* timesteps given to the file-name functions: 0.002 s, 0.01 s, and one between
\* two thousandths
FileDts == {12, 13, 60}

FileInit ==
    /\ f_in \in {Some([engine |-> e, object |-> o, shake |-> sh, mjx |-> mj, dt |-> d]) :
                    e \in Engines, o \in Objects, sh \in BOOLEAN, mj \in BOOLEAN, d \in FileDts}
    /\ f_path = None
    /\ f_parsed = None
    /\ f_pc = "start"
    /\ CtlIdle
    /\ BatchIdle
    /\ PairIdle
    /\ ReportIdle
    /\ BallIdle

\* video_path = generate_video_path(engine, object, shake, mjx, dt, output_dir)
Generate ==
    /\ f_pc = "start"
    /\ f_path' = Some(generate_video_path(f_in[1].engine, f_in[1].object, f_in[1].shake,
                                          f_in[1].mjx, f_in[1].dt))
    /\ f_pc' = "generated"
    /\ UNCHANGED <<f_in, f_parsed>>
    /\ UNCHANGED <<ctl_vars, batch_vars, pair_vars, report_vars, ball_vars>>

\* parsed = parse_result_filename(name)
Parse ==
    /\ f_pc = "generated"
    /\ f_parsed' = parse_result_filename(f_path[1])
    /\ f_pc' = "parsed"
    /\ UNCHANGED <<f_in, f_path>>
    /\ UNCHANGED <<ctl_vars, batch_vars, pair_vars, report_vars, ball_vars>>

FileNext == Generate \/ Parse

SpecFile == FileInit /\ [][FileNext]_vars

\* C5 (as claimed): for dt 0.002 and 0.01, parsing the generated file name gives back
\* the engine, object, mjx and dt it was generated from
C5_RoundTrip ==
    (f_pc = "parsed" /\ f_in[1].dt \in {12, 60}) =>
        /\ f_parsed # None
        /\ f_parsed[1].engine = NameChars(f_in[1].engine)
        /\ f_parsed[1].object = NameChars(f_in[1].object)
        /\ f_parsed[1].mjx = f_in[1].mjx
        /\ f_parsed[1].dt = f_in[1].dt

\* C13 (as claimed): the file name generated for one (engine, object, shake, mjx, dt)
\* is generated for no other one
C13_CollisionFree ==
    f_path # None =>
        \A e \in Engines, o \in Objects, sh \in BOOLEAN, mj \in BOOLEAN, d \in FileDts :
           generate_video_path(e, o, sh, mj, d) = f_path[1] =>
               f_in[1] = [engine |-> e, object |-> o, shake |-> sh, mjx |-> mj, dt |-> d]

-----------------------------------------------------------------------------
(* SpecBatch: run_all_grasp_tests.py *)

UpperChars == <<"A", "B", "C", "D", "E", "F", "G", "H", "I", "J", "K", "L", "M",
                "N", "O", "P", "Q", "R", "S", "T", "U", "V", "W", "X", "Y", "Z">>
LowerChars == <<"a", "b", "c", "d", "e", "f", "g", "h", "i", "j", "k", "l", "m",
                "n", "o", "p", "q", "r", "s", "t", "u", "v", "w", "x", "y", "z">>

\* str.lower()
Lower(s) ==
    [i \in 1..Len(s) |->
        IF \E k \in 1..26 : UpperChars[k] = s[i]
        THEN LowerChars[CHOOSE k \in 1..26 : UpperChars[k] = s[i]]
        ELSE s[i]]

S_passed == <<"p", "a", "s", "s", "e", "d">>
S_failed == <<"f", "a", "i", "l", "e", "d">>
S_TIMEOUT == <<"T", "I", "M", "E", "O", "U", "T">>
\* "\n[TIMEOUT] Test timed out after 60 seconds", cut after the bracket
S_timeout_note == <<"\n", "[", "T", "I", "M", "E", "O", "U", "T", "]">>
\* "Script not found: {script_path}", without the path
S_not_found == <<"S", "c", "r", "i", "p", "t", " ", "n", "o", "t", " ", "f", "o", "u", "n", "d">>
\* "Error running test: ", cut to its first word
S_error == <<"E", "r", "r", "o", "r", ":", " ">>
\* the text of an exception of subprocess.run
S_exc == <<"E", "N", "O", "M", "E", "M">>
\* a line a simulation library may write to stderr
S_lib_timeout == <<"C", "U", "D", "A", "_", "L", "A", "U", "N", "C", "H", "_", "T", "I", "M", "E", "O", "U", "T">>

DEFAULT_ENGINES == <<"mujoco", "motrix", "genesis">>
DEFAULT_OBJECTS == <<"ball", "cube", "bottle">>

Range(f) == {f[i] : i \in DOMAIN f}

\* what the child prints (stdout + stderr) when it runs to its end
ChildOutputs == {S_passed, S_failed, <<>>, S_lib_timeout}

\* what can happen to one call of run_single_test: the child ends with exit code 0
\* after printing any of these, or with exit code 1 after a pass verdict or nothing;
\* it is killed at the timeout; subprocess.run raises; the script is not there
Outcomes ==
    {[kind |-> "completed", returncode |-> 0, text |-> o] : o \in ChildOutputs}
    \cup {[kind |-> "completed", returncode |-> 1, text |-> o] : o \in {S_passed, <<>>}}
    \cup {[kind |-> "timeout", returncode |-> 0, text |-> <<>>],
          [kind |-> "exception", returncode |-> 0, text |-> S_exc],
          [kind |-> "missing", returncode |-> 0, text |-> <<>>]}

\* the command line built for the child: its flags after --object and --dt
BuildCmd(sh) == <<"--mjx", "--record">> \o (IF sh THEN <<"--shake">> ELSE <<>>)

\* the value absl gives the child's boolean flag --shake, whose default is True
ChildShake(cmd) ==
    IF \E i \in 1..Len(cmd) : cmd[i] = "--noshake" THEN FALSE
    ELSE IF \E i \in 1..Len(cmd) : cmd[i] = "--shake" THEN TRUE
    ELSE TRUE

\* success as computed from the finished child
SuccessOf(returncode, output) ==
    \/ Contains(Lower(output), S_passed)
    \/ returncode = 0 /\ ~Contains(Lower(output), S_failed)

\* the except branch dropping the exception text
run_single_test_no_text(oc) ==
    CASE oc.kind = "missing" -> <<FALSE, S_not_found>>
      [] oc.kind = "completed" -> <<SuccessOf(oc.returncode, oc.text), oc.text>>
      [] oc.kind = "timeout" -> <<FALSE, oc.text \o S_timeout_note>>
      [] oc.kind = "exception" -> <<FALSE, S_error>>

\* run_single_test: (success, output) for each thing that can happen to the child
run_single_test(oc) ==
    CASE oc.kind = "missing" -> <<FALSE, S_not_found>>
      [] oc.kind = "completed" -> <<SuccessOf(oc.returncode, oc.text), oc.text>>
      [] oc.kind = "timeout" -> <<FALSE, oc.text \o S_timeout_note>>
      [] oc.kind = "exception" -> <<FALSE, S_error \o oc.text>>

\* the status printed for a test
StatusOf(success, output) ==
    IF Contains(output, S_TIMEOUT) THEN "TIMEOUT"
    ELSE IF success THEN "PASSED" ELSE "FAILED"

\* test_key = f"{engine}_{obj}_dt{dt:.3f}"
TestKey(e, o, d) == Concat(<<NameChars(e), <<"_">>, NameChars(o), <<"_">>, S_dt, Fmt3f(d)>>)

\* results[key] = value on a dict kept in insertion order
DictSet(dict, key, value) ==
    IF \E i \in 1..Len(dict) : dict[i][1] = key
    THEN [i \in 1..Len(dict) |-> IF dict[i][1] = key THEN <<key, value>> ELSE dict[i]]
    ELSE Append(dict, <<key, value>>)

\* tests one run of the batch may hold
MaxTests == 4

EngineLists == {<<"mujoco">>, <<"motrix", "genesis">>, <<"mujocowarp">>}
ObjectLists == {<<"cube">>, <<"ball", "bottle">>}
DtLists == {<<12>>, <<12, 60>>, <<12, 13>>, <<60, 60>>}

BatchInit ==
    /\ b_args \in {Some([engines |-> es, objects |-> os, dt_values |-> ds, shake |-> TRUE,
                         no_shake |-> ns]) :
                      es \in EngineLists, os \in ObjectLists, ds \in DtLists, ns \in BOOLEAN}
    /\ Len(b_args[1].engines) * Len(b_args[1].objects) * Len(b_args[1].dt_values) <= MaxTests
    /\ b_pc = "main"
    /\ b_pos = <<0, 0, 0>>
    /\ b_completed = 0
    /\ b_results = <<>>
    /\ b_launched = <<>>
    /\ b_printed = <<>>
    /\ b_summary = None
    /\ CtlIdle
    /\ FileIdle
    /\ PairIdle
    /\ ReportIdle
    /\ BallIdle

\* shake = args.shake and not args.no_shake
BatchShake == b_args[1].shake /\ ~b_args[1].no_shake

\* main up to the call of run_all_tests: the engines and objects are validated
BatchMain ==
    /\ b_pc = "main"
    /\ IF /\ \A i \in 1..Len(b_args[1].engines) : b_args[1].engines[i] \in Range(DEFAULT_ENGINES)
          /\ \A i \in 1..Len(b_args[1].objects) : b_args[1].objects[i] \in Range(DEFAULT_OBJECTS)
       THEN /\ b_pc' = "run"
            /\ b_pos' = <<1, 1, 1>>
       ELSE /\ b_pc' = "exit1"
            /\ UNCHANGED b_pos
    /\ UNCHANGED <<b_args, b_completed, b_results, b_launched, b_printed, b_summary>>
    /\ UNCHANGED <<ctl_vars, file_vars, pair_vars, report_vars, ball_vars>>

\* the loop indices after one more test
NextPos(pos, n_objects, n_dts) ==
    IF pos[3] < n_dts THEN <<pos[1], pos[2], pos[3] + 1>>
    ELSE IF pos[2] < n_objects THEN <<pos[1], pos[2] + 1, 1>>
    ELSE <<pos[1] + 1, 1, 1>>

\* one iteration of the innermost loop of run_all_tests
RunTest ==
    /\ b_pc = "run"
    /\ \E oc \in Outcomes :
          LET e == b_args[1].engines[b_pos[1]]
              o == b_args[1].objects[b_pos[2]]
              d == b_args[1].dt_values[b_pos[3]]
              test_key == TestKey(e, o, d)
              cmd == BuildCmd(BatchShake)
              res == run_single_test(oc)
              success == res[1]
              output == res[2]
              np == NextPos(b_pos, Len(b_args[1].objects), Len(b_args[1].dt_values))
          IN  /\ b_completed' = b_completed + 1
              /\ b_launched' = Append(b_launched,
                                      [engine |-> e, object |-> o, dt |-> d, pos |-> b_pos,
                                       kind |-> oc.kind, returncode |-> oc.returncode,
                                       text |-> oc.text, success |-> success,
                                       output |-> output,
                                       started |-> oc.kind # "missing",
                                       cmd |-> cmd, child_shake |-> ChildShake(cmd)])
              /\ b_printed' = Append(b_printed, StatusOf(success, output))
              /\ b_results' = DictSet(b_results, test_key,
                                      [success |-> success, output |-> output, engine |-> e,
                                       object |-> o, dt |-> d, shake |-> BatchShake])
              /\ b_pos' = np
              /\ b_pc' = IF np[1] > Len(b_args[1].engines) THEN "returned" ELSE "run"
    /\ UNCHANGED <<b_args, b_summary>>
    /\ UNCHANGED <<ctl_vars, file_vars, pair_vars, report_vars, ball_vars>>

\* sum(1 for r in results.values() if ...): the number of results whose flag is set
CountIf(flags) == Cardinality({j \in 1..Len(flags) : flags[j]})

IsPassed(r) == r.success
IsTimedOut(r) == Contains(r.output, S_TIMEOUT)

\* the counts print_summary prints
SummaryOf(results) ==
    LET total == Len(results)
        passed == CountIf([j \in 1..Len(results) |-> IsPassed(results[j][2])])
        timed_out == CountIf([j \in 1..Len(results) |-> IsTimedOut(results[j][2])])
    IN  [total |-> total, passed |-> passed, timed_out |-> timed_out,
         failed |-> total - passed - timed_out]

\* print_summary(results), called by main once run_all_tests has returned
PrintSummary ==
    /\ b_pc = "returned"
    /\ b_summary = None
    /\ b_summary' = Some(SummaryOf(b_results))
    /\ UNCHANGED <<b_args, b_pc, b_pos, b_completed, b_results, b_launched, b_printed>>
    /\ UNCHANGED <<ctl_vars, file_vars, pair_vars, report_vars, ball_vars>>

BatchNext == BatchMain \/ RunTest \/ PrintSummary

SpecBatch == BatchInit /\ [][BatchNext]_vars

-----------------------------------------------------------------------------
(* Properties of the batch runner *)

\* the tests of the nested loops, in order
RECURSIVE Product(_, _, _, _)
Product(es, os, ds, pos) ==
    IF pos[1] > Len(es) THEN <<>>
    ELSE <<[engine |-> es[pos[1]], object |-> os[pos[2]], dt |-> ds[pos[3]]]>>
         \o Product(es, os, ds, NextPos(pos, Len(os), Len(ds)))

Requested == Product(b_args[1].engines, b_args[1].objects, b_args[1].dt_values, <<1, 1, 1>>)

Config(l) == [engine |-> l.engine, object |-> l.object, dt |-> l.dt]

\* C7 (as claimed): every child runs with the shake flag the batch runner computed:
\* false under --no-shake, true without it
C7_ChildShake ==
    \A i \in 1..Len(b_launched) :
       b_launched[i].started => b_launched[i].child_shake = ~b_args[1].no_shake

\* C8 (as claimed): a timed-out child is recorded with success false and printed as
\* TIMEOUT while the runner goes on, and only a timed-out child is printed as TIMEOUT
C8_TimeoutStatus ==
    /\ Len(b_printed) = Len(b_launched)
    /\ \A i \in 1..Len(b_launched) :
          /\ b_launched[i].kind = "timeout" =>
                /\ ~b_launched[i].success
                /\ b_printed[i] = "TIMEOUT"
                /\ b_pc \in {"run", "returned"}
          /\ b_printed[i] = "TIMEOUT" => b_launched[i].kind = "timeout"

\* C9 (amended): a missing script and an exception of subprocess.run give
\* (False, text), the text holding the exception's text, the runner goes on, and no
\* element of engines x objects x dt_values is launched again: the tests launched so
\* far are the first elements of the nested loops, in order, one launch each
C9_NoRetry ==
    /\ b_pc \in {"main", "exit1", "run", "returned"}
    /\ Len(b_launched) = b_completed
    /\ Len(b_printed) = b_completed
    /\ b_pc \in {"run", "returned"} =>
          /\ Len(b_launched) <= Len(Requested)
          /\ \A i \in 1..Len(b_launched) :
                /\ Config(b_launched[i]) = Requested[i]
                /\ b_launched[i].kind = "exception" =>
                      /\ ~b_launched[i].success
                      /\ Contains(b_launched[i].output, b_launched[i].text)
                      /\ b_printed[i] = "FAILED"
                /\ b_launched[i].kind = "missing" =>
                      /\ ~b_launched[i].success
                      /\ b_launched[i].output = S_not_found
                      /\ b_printed[i] = "FAILED"
    /\ b_pc = "returned" => Len(b_launched) = Len(Requested)

\* subprocess.run raised for the second test of a batch and the script of the third
\* was missing; the batch went on to its fourth test and returned
C9_Witness ==
    /\ b_pc = "returned"
    /\ Len(b_launched) = 4
    /\ b_launched[2].kind = "exception"
    /\ b_launched[3].kind = "missing"
    /\ b_launched[4].kind = "completed"

\* C9 (as claimed): no (engine, object, dt) configuration is launched more than once
C9_AtMostOnce ==
    \A i, j \in 1..Len(b_launched) :
       Config(b_launched[i]) = Config(b_launched[j]) => i = j

\* C10 (as claimed): run_all_tests returns one entry per launched test, each holding
\* the success, engine, object and dt of its own test
C10_OneEntryPerTest ==
    b_pc = "returned" =>
        /\ Len(b_launched) = Len(Requested)
        /\ Len(b_results) = Len(b_args[1].engines) * Len(b_args[1].objects)
                               * Len(b_args[1].dt_values)
        /\ \A i \in 1..Len(b_launched) :
              \E j \in 1..Len(b_results) :
                 /\ b_results[j][2].engine = b_launched[i].engine
                 /\ b_results[j][2].object = b_launched[i].object
                 /\ b_results[j][2].dt = b_launched[i].dt
                 /\ b_results[j][2].success = b_launched[i].success

\* C26 (as claimed): a child that ran to its end is printed as PASSED only if its
\* output holds a pass verdict
C26_PassedNeedsVerdict ==
    \A i \in 1..Len(b_launched) :
       (b_launched[i].kind = "completed" /\ (b_printed[i] = "PASSED" \/ b_launched[i].success))
           => Contains(Lower(b_launched[i].text), S_passed)

\* C27 (as claimed): the three counts of the summary are each >= 0, sum to the number
\* of results, and each is the number of results whose printed status is that bucket's
C27_Buckets ==
    b_summary # None =>
        LET sm == b_summary[1]
            Printed(st) == Cardinality({j \in 1..Len(b_results) :
                              StatusOf(b_results[j][2].success, b_results[j][2].output) = st})
        IN  /\ sm.total = Len(b_results)
            /\ sm.passed >= 0
            /\ sm.failed >= 0
            /\ sm.timed_out >= 0
            /\ sm.passed + sm.failed + sm.timed_out = sm.total
            /\ sm.passed = Printed("PASSED")
            /\ sm.failed = Printed("FAILED")
            /\ sm.timed_out = Printed("TIMEOUT")

-----------------------------------------------------------------------------
(* SpecReport: load_test_results and generate_summary_stats of test_output_utils.py, *)
(* generate_html_report and the matrix of test_result_visualizer.py                  *)

\* the controllers that write a JSON file beside their video, and the settings of
\* the recorded runs explored
ReportEngines == {"motrix", "mujocowarp"}
ReportObjects == {"cube", "ball"}
ReportDts == {12, 60}
ReportStatuses == {"success", "failure"}

\* the drop time a failed run records: the object is found dropped when shaking starts
ReportDropTime(st) == IF st = "success" THEN None ELSE Some(T4 * Unit)

\* the recorded runs explored: every engine, object, task and timestep with the
\* default robot model, and the mjx model for the motrix slip test of the cube
ReportRun(e, o, sh, mj, d) == mj => (e = "motrix" /\ o = "cube" /\ ~sh)

\* number of JSON files in output/
MaxFiles == 2

\* output_dir.glob("*.json"): the files in an order the file system chooses
Orders(S) ==
    {files \in [1..Cardinality(S) -> S] :
        \A i, j \in 1..Cardinality(S) : i # j => files[i] # files[j]}

\* load_test_results: one result per file whose name parses, in directory order; the
\* engine, task and object come from the file name, the rest from the JSON
\* (video_exists is left out)
RECURSIVE load_test_results(_)
load_test_results(files) ==
    IF files = <<>> THEN <<>>
    ELSE LET json_file == Head(files)
             parsed == parse_result_filename(PathName(json_file.path))
             data == json_file.result[1]
             rest == load_test_results(Tail(files))
         IN  IF parsed = None THEN rest
             ELSE <<[engine |-> parsed[1].engine,
                     task |-> parsed[1].task,
                     object |-> parsed[1].object,
                     video_path |-> data.video_path,
                     status |-> data.status,
                     drop_time |-> data.drop_time,
                     mjx |-> data.mjx,
                     dt |-> data.dt,
                     json_file |-> json_file.path]>> \o rest

\* the five dimensions of the summary
StatKeys == {"engine", "object", "task", "mjx", "dt"}

\* the value a result is counted under: str(value).lower() for mjx, f"{value:.3f}" for dt
KeyOf(key, result) ==
    CASE key = "engine" -> result.engine
      [] key = "object" -> result.object
      [] key = "task" -> result.task
      [] key = "mjx" -> BoolLower(result.mjx)
      [] key = "dt" -> Fmt3f(result.dt)

\* sum(1 for ... if ...): the number of results whose flag is set
Count(flags) == Cardinality({i \in 1..Len(flags) : flags[i]})

\* the counters of one value of one dimension, forgetting which value is counted
BucketOfAll(results, key, value) ==
    LET succeeded(r) == r.status = "success"
        other(r) == r.status # "success"
    IN  [total |-> Len(results),
         success |-> Count([i \in 1..Len(results) |-> succeeded(results[i])]),
         failure |-> Count([i \in 1..Len(results) |-> other(results[i])])]

\* stats[f"by_{key}"][value]: every result of that value is counted in total, and in
\* success if its status is "success", in failure otherwise
Bucket(results, key, value) ==
    LET mine(r) == KeyOf(key, r) = value
        succeeded(r) == mine(r) /\ r.status = "success"
        other(r) == mine(r) /\ r.status # "success"
    IN  [total |-> Count([i \in 1..Len(results) |-> mine(results[i])]),
         success |-> Count([i \in 1..Len(results) |-> succeeded(results[i])]),
         failure |-> Count([i \in 1..Len(results) |-> other(results[i])])]

generate_summary_stats(results) ==
    LET succeeded(r) == r.status = "success"
        failed(r) == r.status = "failure"
    IN  [total |-> Len(results),
         success |-> Count([i \in 1..Len(results) |-> succeeded(results[i])]),
         failure |-> Count([i \in 1..Len(results) |-> failed(results[i])]),
         by |-> [key \in StatKeys |->
                    [value \in {KeyOf(key, results[i]) : i \in 1..Len(results)} |->
                        Bucket(results, key, value)]]]

\* the key of result_lookup
Triple(r) == <<r.engine, r.object, r.dt>>

\* result_lookup.get(triple): a later result of the list replaces an earlier one
result_lookup(results, triple) ==
    LET idx == {i \in 1..Len(results) : Triple(results[i]) = triple}
    IN  IF idx = {} THEN None
        ELSE Some(results[CHOOSE i \in idx : \A j \in idx : j <= i])

\* the class of the status icon of a cell
Icon(result) ==
    IF result = None THEN "missing"
    ELSE IF result[1].status = "success" THEN "success" ELSE "failure"

\* _get_engine_config_matrix_html: one cell per engine row and (object, dt) column;
\* <<>> when the function returns the empty string
get_engine_config_matrix_html(results) ==
    LET engines == {results[i].engine : i \in 1..Len(results)}
        objects == {results[i].object : i \in 1..Len(results)}
        dt_values == {results[i].dt : i \in 1..Len(results)}
    IN  IF engines = {} \/ objects = {} THEN None
        ELSE Some({[engine |-> e, object |-> o, dt |-> d,
                    icon |-> Icon(result_lookup(results, <<e, o, d>>))] :
                        e \in engines, o \in objects, d \in dt_values})

ReportInit ==
    /\ r_dir = {}
    /\ r_pc = "writing"
    /\ r_results = <<>>
    /\ r_stats = None
    /\ r_matrix = None
    /\ CtlIdle
    /\ FileIdle
    /\ BatchIdle
    /\ PairIdle
    /\ BallIdle

\* a recorded run of the motrix or mujocowarp controller ends: save_test_result writes
\* its JSON file, replacing a file of the same name
SaveResult ==
    /\ r_pc = "writing"
    /\ \E e \in ReportEngines, o \in ReportObjects, sh \in BOOLEAN, mj \in BOOLEAN,
          d \in ReportDts, st \in ReportStatuses :
          /\ ReportRun(e, o, sh, mj, d)
          /\ LET json_file == save_test_result(generate_video_path(e, o, sh, mj, d), st,
                                               ReportDropTime(st), e, o, sh, mj, d)
                 kept == {g \in r_dir : g.path # json_file.path}
             IN  /\ Cardinality(kept) < MaxFiles
                 /\ r_dir' = kept \cup {json_file}
    /\ UNCHANGED <<r_pc, r_results, r_stats, r_matrix>>
    /\ UNCHANGED <<ctl_vars, file_vars, batch_vars, pair_vars, ball_vars>>

\* generate_html_report: loads the results, computes the summary and renders the page
GenerateReport ==
    /\ r_pc = "writing"
    /\ \E files \in Orders(r_dir) :
          LET results == load_test_results(files)
          IN  /\ r_results' = results
              /\ r_stats' = Some(generate_summary_stats(results))
              /\ r_matrix' = get_engine_config_matrix_html(results)
    /\ r_pc' = "reported"
    /\ UNCHANGED r_dir
    /\ UNCHANGED <<ctl_vars, file_vars, batch_vars, pair_vars, ball_vars>>

ReportNext == SaveResult \/ GenerateReport

SpecReport == ReportInit /\ [][ReportNext]_vars

-----------------------------------------------------------------------------
(* Properties of the report *)

RECURSIVE SumField(_, _, _)
SumField(by, values, field) ==
    IF values = {} THEN 0
    ELSE LET v == CHOOSE x \in values : TRUE
         IN  by[v][field] + SumField(by, values \ {v}, field)

C29_MatrixCells ==
    r_pc = "reported" =>
        LET cells == IF r_matrix = None THEN {} ELSE r_matrix[1]
            all == 1..Len(r_results)
            product == {<<r_results[i].engine, r_results[j].object, r_results[k].dt>> :
                            i \in all, j \in all, k \in all}
            same(t) == {i \in all : Triple(r_results[i]) = t}
        IN  /\ \A t \in product : Cardinality({c \in cells : Triple(c) = t}) = 1
            /\ \A c \in cells :
                  /\ Triple(c) \in product
                  /\ c.icon = IF same(Triple(c)) = {} THEN "missing"
                              ELSE IF \A i \in same(Triple(c)) :
                                         r_results[i].status = "success"
                                   THEN "success"
                                   ELSE "failure"

-----------------------------------------------------------------------------
(* SpecBall: the benchmark phase of grasp-bench/test_motrixsim_ball.py, after the *)
(* two warmup phases                                                             *)

benchmark_steps == 500

\* callbacks the render loop makes after the one that printed the report
MaxExtra == 3

\* what iteration i of the non-visual loop does: a control write with fresh noise if -r
\* is given and i is even, then one physics step (the noise values are left out)
LoopOps(r, i) ==
    (IF r /\ i % 2 = 0 THEN <<[op |-> "ctrl", i |-> i]>> ELSE <<>>)
        \o <<[op |-> "step", i |-> i]>>

\* the callback writing the control on the odd steps instead
CallbackOpsOdd(r, i) ==
    (IF r /\ i % 2 = 1 THEN <<[op |-> "ctrl", i |-> i]>> ELSE <<>>)
        \o <<[op |-> "step", i |-> i]>>

\* what phys_step does at step_counter[0] = i < benchmark_steps
CallbackOps(r, i) ==
    (IF r /\ i % 2 = 0 THEN <<[op |-> "ctrl", i |-> i]>> ELSE <<>>)
        \o <<[op |-> "step", i |-> i]>>

\* what iterations lo, lo + 1, ..., hi - 1 of the non-visual loop do, in that order
RECURSIVE LoopRange(_, _, _)
LoopRange(r, lo, hi) ==
    IF lo >= hi THEN <<>>
    ELSE IF hi = lo + 1 THEN LoopOps(r, lo)
    ELSE LET mid == (lo + hi) \div 2
         IN  LoopRange(r, lo, mid) \o LoopRange(r, mid, hi)

\* what the first n iterations of the non-visual loop do
LoopLog(r, n) == LoopRange(r, 0, n)

BallInit ==
    /\ ball_v \in BOOLEAN
    /\ ball_r \in BOOLEAN
    /\ ball_pc = "bench"
    /\ step_counter = 0
    /\ benchmark_complete = FALSE
    /\ t_start = None
    /\ ball_calls = 0
    /\ ball_reports = 0
    /\ ball_log = <<>>
    /\ CtlIdle
    /\ FileIdle
    /\ BatchIdle
    /\ PairIdle
    /\ ReportIdle

\* -v: run.render_loop invokes the callback once more
phys_step ==
    /\ ball_pc = "bench"
    /\ ball_v
    /\ ball_calls < benchmark_steps + 1 + MaxExtra
    /\ ball_calls' = ball_calls + 1
    /\ IF benchmark_complete
       THEN UNCHANGED <<step_counter, benchmark_complete, t_start, ball_reports, ball_log>>
       ELSE /\ t_start' = IF t_start = None THEN Some(ball_calls + 1) ELSE t_start
            /\ IF step_counter < benchmark_steps
               THEN /\ ball_log' = ball_log \o CallbackOps(ball_r, step_counter)
                    /\ step_counter' = step_counter + 1
                    /\ UNCHANGED <<benchmark_complete, ball_reports>>
               ELSE /\ benchmark_complete' = TRUE
                    /\ ball_reports' = ball_reports + 1
                    /\ UNCHANGED <<step_counter, ball_log>>
    /\ UNCHANGED <<ball_v, ball_r, ball_pc>>
    /\ UNCHANGED <<ctl_vars, file_vars, batch_vars, pair_vars, report_vars>>

\* without -v: one iteration of for i in range(benchmark_steps)
BenchIteration ==
    /\ ball_pc = "bench"
    /\ ~ball_v
    /\ step_counter < benchmark_steps
    /\ ball_log' = ball_log \o LoopOps(ball_r, step_counter)
    /\ step_counter' = step_counter + 1
    /\ UNCHANGED <<ball_v, ball_r, ball_pc, benchmark_complete, t_start, ball_calls,
                   ball_reports>>
    /\ UNCHANGED <<ctl_vars, file_vars, batch_vars, pair_vars, report_vars>>

\* without -v: the loop is over and the two FPS lines are printed
BenchReport ==
    /\ ball_pc = "bench"
    /\ ~ball_v
    /\ step_counter = benchmark_steps
    /\ ball_reports' = ball_reports + 1
    /\ ball_pc' = "done"
    /\ UNCHANGED <<ball_v, ball_r, step_counter, benchmark_complete, t_start, ball_calls,
                   ball_log>>
    /\ UNCHANGED <<ctl_vars, file_vars, batch_vars, pair_vars, report_vars>>

BallNext == phys_step \/ BenchIteration \/ BenchReport

SpecBall == BallInit /\ [][BallNext]_vars

-----------------------------------------------------------------------------
(* Properties of the ball benchmark *)

\* C30: in visual mode the benchmark never takes more than benchmark_steps physics
\* steps, one per callback, however many callbacks the render loop makes; the FPS
\* report is printed once, by the first callback after the last step, and a callback
\* after that changes nothing; the control writes and steps made so far are those of
\* the same number of iterations of the non-visual loop, and so those of the finished
\* non-visual run once the benchmark is complete.
C30_VisualBenchmark ==
    /\ [](ball_v /\ ball_pc = "bench" =>
            /\ step_counter = IF ball_calls < benchmark_steps THEN ball_calls
                              ELSE benchmark_steps
            /\ benchmark_complete = (ball_calls > benchmark_steps)
            /\ ball_reports = IF ball_calls > benchmark_steps THEN 1 ELSE 0
            /\ ball_log = LoopLog(ball_r, step_counter))
    /\ [](~ball_v /\ ball_pc = "done" =>
            /\ ball_reports = 1
            /\ ball_log = LoopLog(ball_r, benchmark_steps))
    /\ [][ball_v /\ benchmark_complete =>
            UNCHANGED <<step_counter, benchmark_complete, t_start, ball_reports,
                        ball_log>>]_vars

\* with -v and -r, callbacks kept coming after the report
C30_Witness ==
    /\ ball_v
    /\ ball_r
    /\ ball_calls = benchmark_steps + 1 + MaxExtra
    /\ benchmark_complete
    /\ ball_reports = 1
    /\ step_counter = benchmark_steps
    /\ Len(ball_log) = benchmark_steps + benchmark_steps \div 2

====
